---- MODULE Spec2Model ----
(***************************************************************************)
(* The scene loader of src/src/scene.rs (Scene::load) as a state machine.  *)
(* One step of the machine is one iteration of the dispatcher loop         *)
(* `while let Some(parser) = parsers.last_mut()`: the top parser yields a  *)
(* directive (or end of file) and the matching arm runs to its end.        *)
(***************************************************************************)
EXTENDS Integers, Sequences, FiniteSets, TLC

VARIABLES
    parsers,              \* Vec<Parser>: the stack of token cursors
    includes,             \* Vec<String>: the owning store of included buffers
    current_state,        \* State
    states_stack,         \* Vec<State>
    is_world_block,       \* bool
    named_coord_systems,  \* HashMap<String, Mat4>
    named_textures,       \* HashMap<String, usize>
    named_materials,      \* HashMap<String, usize>
    named_mediums,        \* HashMap<String, usize>
    named_objects,        \* HashMap<String, usize>
    scene,                \* Scene
    result,               \* what load has returned: "running" until it returns
    debug_assertions,     \* build profile: are debug_assert!s compiled in
    last,                 \* history: the directive fetched by the latest step
    opens,                \* history: the scopes opened and not yet closed
    recorded,             \* history: name -> transform at its CoordinateSystem
    gap,                  \* history: what followed the latest ObjectInstance
    before,               \* history: current_state before the latest directive
    root_text,            \* history: the root text, when it is known up front
    consumed,             \* history: number of directives dispatched so far
    world_seen            \* history: a WorldBegin directive has been dispatched

vars == <<parsers, includes, current_state, states_stack, is_world_block,
          named_coord_systems, named_textures, named_materials, named_mediums,
          named_objects, scene, result, debug_assertions,
          last, opens, recorded, gap, before, root_text, consumed, world_seen>>

(***************************************************************************)
(* Bounds of the model.                                                    *)
(***************************************************************************)
\* Directives of a root text that is revealed one directive at a time.
MaxDirectives == 5
\* Length of a root text chosen up front (the include specification).
MaxRootLen == 3
\* Directives of a root text over the directives that write the graphics state.
MaxAttrDirectives == 4

\* Directives of a root text that fills the scene and the name tables.
MaxSceneDirectives == 4
\* Parsers on the stack when files include themselves: the stack of the
\* program has no bound but memory.
MaxParsers == 13

(***************************************************************************)
(* Element, the directive a parser yields: a record of the variant, `op`,  *)
(* and of the variant's fields.                                            *)
(***************************************************************************)
ElementFields ==
    DOMAIN [op |-> "", name |-> "", ty |-> "", class |-> "", target |-> "",
            params |-> "", angle |-> "", v |-> "", eye |-> "", look_at |-> "",
            up |-> "", m |-> "", start |-> "", end |-> "", path |-> "",
            interior |-> "", exterior |-> ""]

(***************************************************************************)
(* Option<T> and HashMap<K, V>.                                            *)
(***************************************************************************)
None == <<>>

Some(x) == <<x>>

IsSome(o) == o # None

Unwrap(o) == o[1]

EmptyMap == [k \in {} |-> 0]

\* HashMap::insert: the key's old value, if any, is overwritten.
Insert(m, k, v) == [x \in DOMAIN m \cup {k} |-> IF x = k THEN v ELSE m[x]]

\* HashMap::get(..).copied()
Get(m, k) == IF k \in DOMAIN m THEN Some(m[k]) ELSE None

(***************************************************************************)
(* Mat4.  The matrices of the model are the six 3x3 permutation matrices,  *)
(* written as the permutation they apply: a non-commutative group under    *)
(* the matrix product, so that the order of a product and an inverse can   *)
(* be told apart.                                                          *)
(***************************************************************************)
IDENTITY == <<1, 2, 3>>

\* Mat4 `a * b`
Mul(a, b) == [i \in 1..3 |-> a[b[i]]]

\* Mat4::inverse
Inverse(a) == [i \in 1..3 |-> CHOOSE j \in 1..3 : a[j] = i]

\* Mat4::from_translation: the zero vector gives the identity.
FromTranslation(v) == IF v = <<0, 0, 0>> THEN IDENTITY ELSE <<2, 1, 3>>

\* Mat4::from_scale: the unit vector gives the identity.
FromScale(v) == IF v = <<1, 1, 1>> THEN IDENTITY ELSE <<1, 3, 2>>

\* Mat4::from_axis_angle: a third of a turn about the diagonal permutes the
\* axes cyclically, one way or the other; no turn is the identity.
FromAxisAngle(axis, angle) ==
    IF angle = 0 THEN IDENTITY
    ELSE IF angle = 120 THEN <<2, 3, 1>>
    ELSE <<3, 1, 2>>

\* Mat4::look_at_lh: looking from the origin along +z with +y up is the
\* identity.
LookAtLh(eye, look_at, up) ==
    IF eye = <<0, 0, 0>> /\ look_at = <<0, 0, 1>> /\ up = <<0, 1, 0>>
    THEN IDENTITY
    ELSE <<3, 2, 1>>

\* Mat4::from_cols_array: the array holds the matrix column after column;
\* column j of a permutation matrix has its 1 in the row j is sent to.
FromColsArray(m) ==
    [j \in 1..3 |-> CHOOSE i \in 1..3 : m[3 * (j - 1) + i] = 1]

TranslateVecs == {<<0, 0, 0>>, <<1, 0, 0>>}

RotateAngles == {0, 120, 240}

LookAts ==
    {[eye |-> <<0, 0, 0>>, look_at |-> <<0, 0, 1>>, up |-> <<0, 1, 0>>],
     [eye |-> <<1, 0, 0>>, look_at |-> <<0, 0, 0>>, up |-> <<0, 1, 0>>]}

ColsArrays ==
    {<<1, 0, 0,  0, 1, 0,  0, 0, 1>>,
     <<0, 1, 0,  1, 0, 0,  0, 0, 1>>,
     <<0, 1, 0,  0, 0, 1,  1, 0, 0>>}

ScaleVecs == {<<1, 1, 1>>, <<2, 2, 2>>}

(***************************************************************************)
(* ParamList and the entity constructors (crate::param, crate::types).     *)
(***************************************************************************)
\* ParamList::extend(&mut self, other): values already in self are kept.
Extend(self, other) ==
    [k \in DOMAIN self \cup DOMAIN other |->
        IF k \in DOMAIN self THEN self[k] ELSE other[k]]

\* X::new(ty, params): Ok for a known type name, Err otherwise.
KnownTypes ==
    {"sphere", "diffuse", "perspective", "conductor", "point", "imagemap",
     "homogeneous", "rgb", "gbuffer", "path", "bvh", "gaussian", "halton"}

Constructs(ty) == ty \in KnownTypes

\* Medium::new(params): the type name is the parameter "type".
ConstructsMedium(params) ==
    "type" \in DOMAIN params /\ Constructs(params["type"])

(***************************************************************************)
(* State and Scene.                                                        *)
(***************************************************************************)
\* State::default()
DefaultState ==
    [reverse_orientation |-> FALSE,
     transform_matrix |-> IDENTITY,
     current_inside_medium |-> None,
     current_outside_medium |-> None,
     material_index |-> None,
     area_light_index |-> None,
     active_object |-> None,
     shape_count |-> 0,
     shape_params |-> EmptyMap,
     light_params |-> EmptyMap,
     material_params |-> EmptyMap,
     medium_params |-> EmptyMap,
     texture_params |-> EmptyMap]

\* Scene::default()
DefaultScene ==
    [start_time |-> 0,
     end_time |-> 0,
     options |-> {},
     camera |-> None,
     film |-> None,
     integrator |-> None,
     pixel_filter |-> None,
     accelerator |-> None,
     sampler |-> None,
     textures |-> <<>>,
     materials |-> <<>>,
     lights |-> <<>>,
     area_lights |-> <<>>,
     mediums |-> <<>>,
     shapes |-> <<>>,
     objects |-> <<>>,
     instances |-> <<>>]

(***************************************************************************)
(* Parser.  A cursor holds the directives of its buffer that are still to  *)
(* come: `text` the ones already known, `more` how many further ones the   *)
(* buffer may still reveal.                                                *)
(***************************************************************************)
\* Parser::new(data)
NewParser(text) == [text |-> text, more |-> 0]

Top == parsers[Len(parsers)]

Running == result = "running" /\ parsers # <<>>

\* parser.parse_next() returns Ok(d)
Yields(d) ==
    /\ Running
    /\ \/ Top.text # <<>> /\ Head(Top.text) = d
       \/ Top.text = <<>> /\ Top.more > 0

\* parser.parse_next() returns Err(Error::EndOfFile)
AtEndOfFile == Running /\ Top.text = <<>>

\* The parser stack once the top parser has moved past the directive.
Advanced ==
    IF Top.text # <<>>
    THEN [parsers EXCEPT ![Len(parsers)].text = Tail(Top.text)]
    ELSE [parsers EXCEPT ![Len(parsers)].more = Top.more - 1]

Pop(stack) == SubSeq(stack, 1, Len(stack) - 1)

Peek(stack) == stack[Len(stack)]

(***************************************************************************)
(* History variables.  They record what the claims speak about and are     *)
(* never read by the loader.                                               *)
(***************************************************************************)
NoDirective == [op |-> "none"]

NoGap == [name |-> "", phase |-> "none"]

TransformOps ==
    {"Translate", "Scale", "Rotate", "LookAt", "Identity", "Transform",
     "ConcatTransform"}

\* A scope opened by AttributeBegin ("attr") or ObjectBegin ("obj"): the state
\* just before it, the number of shapes then in the scene, the Shape
\* directives processed since, and whether a terminator of the other kind has
\* been processed since (the text since the opening is then not well nested).
Opened(kind, index) ==
    [kind |-> kind, index |-> index, saved |-> current_state,
     tainted |-> FALSE, nshapes |-> 0, first |-> Len(scene.shapes)]

Closed(kind) ==
    IF opens = <<>> THEN opens
    ELSE IF Peek(opens).kind = kind THEN Pop(opens)
    ELSE [i \in 1..(Len(opens) - 1) |-> [opens[i] EXCEPT !.tainted = TRUE]]

Observe(d, counted) ==
    /\ last' = d
    /\ before' = current_state
    /\ consumed' = IF counted THEN consumed + 1 ELSE consumed
    /\ root_text' = root_text
    /\ world_seen' = (world_seen \/ d.op = "WorldBegin")
    /\ opens' =
        IF result' # "running" THEN opens
        ELSE CASE d.op = "AttributeBegin" -> Append(opens, Opened("attr", None))
               [] d.op = "ObjectBegin" ->
                    Append(opens, Opened("obj", Some(Len(scene.objects))))
               [] d.op = "AttributeEnd" -> Closed("attr")
               [] d.op = "ObjectEnd" -> Closed("obj")
               [] d.op = "Shape" ->
                    [i \in 1..Len(opens) |-> [opens[i] EXCEPT !.nshapes = @ + 1]]
               [] OTHER -> opens
    /\ recorded' =
        IF result' # "running" THEN recorded
        ELSE CASE d.op = "CoordinateSystem" ->
                    Insert(recorded, d.name, current_state.transform_matrix)
               [] d.op = "Camera" ->
                    [n \in DOMAIN recorded \ {"camera"} |-> recorded[n]]
               [] OTHER -> recorded
    /\ gap' =
        IF result' # "running" THEN NoGap
        ELSE IF d.op = "ObjectInstance" THEN [name |-> d.name, phase |-> "inst"]
        ELSE IF /\ gap.phase = "inst"
                /\ d.op \in TransformOps
                /\ current_state'.transform_matrix # current_state.transform_matrix
             THEN [name |-> gap.name, phase |-> "moved"]
        ELSE NoGap

tables ==
    <<named_coord_systems, named_textures, named_materials, named_mediums,
      named_objects>>

(***************************************************************************)
(* The arms of the dispatcher, one operator per Element variant.           *)
(***************************************************************************)
\* Element::AttributeBegin
AttributeBegin ==
    LET d == [op |-> "AttributeBegin"] IN
    /\ Yields(d)
    /\ parsers' = Advanced
    /\ states_stack' = Append(states_stack, current_state)
    /\ UNCHANGED <<includes, current_state, is_world_block, tables, scene,
                   result, debug_assertions>>
    /\ Observe(d, TRUE)

\* AttributeEnd that keeps the running shape counter instead of restoring it.
AttributeEnd_KeepsCount ==
    LET d == [op |-> "AttributeEnd"] IN
    /\ Yields(d)
    /\ parsers' = Advanced
    /\ IF states_stack # <<>>
       THEN /\ current_state' =
                [Peek(states_stack) EXCEPT !.shape_count = current_state.shape_count]
            /\ states_stack' = Pop(states_stack)
            /\ result' = result
       ELSE /\ result' = "Err(TooManyEndAttributes)"
            /\ UNCHANGED <<current_state, states_stack>>
    /\ UNCHANGED <<includes, is_world_block, tables, scene, debug_assertions>>
    /\ Observe(d, TRUE)

\* AttributeEnd that ignores a terminator it has no snapshot for.
AttributeEnd_Lenient ==
    LET d == [op |-> "AttributeEnd"] IN
    /\ Yields(d)
    /\ parsers' = Advanced
    /\ IF states_stack # <<>>
       THEN /\ current_state' = Peek(states_stack)
            /\ states_stack' = Pop(states_stack)
       ELSE UNCHANGED <<current_state, states_stack>>
    /\ UNCHANGED <<includes, is_world_block, tables, scene, result,
                   debug_assertions>>
    /\ Observe(d, TRUE)

\* Element::AttributeEnd
AttributeEnd ==
    LET d == [op |-> "AttributeEnd"] IN
    /\ Yields(d)
    /\ parsers' = Advanced
    /\ IF states_stack # <<>>
       THEN /\ current_state' = Peek(states_stack)
            /\ states_stack' = Pop(states_stack)
            /\ result' = result
       ELSE /\ result' = "Err(TooManyEndAttributes)"
            /\ UNCHANGED <<current_state, states_stack>>
    /\ UNCHANGED <<includes, is_world_block, tables, scene, debug_assertions>>
    /\ Observe(d, TRUE)

\* Element::ReverseOrientation
ReverseOrientation ==
    LET d == [op |-> "ReverseOrientation"] IN
    /\ Yields(d)
    /\ parsers' = Advanced
    /\ current_state' =
        [current_state EXCEPT !.reverse_orientation = ~current_state.reverse_orientation]
    /\ UNCHANGED <<includes, states_stack, is_world_block, tables, scene,
                   result, debug_assertions>>
    /\ Observe(d, TRUE)

\* The arms that only assign the current transformation matrix.
SetTransform(d, m) ==
    /\ Yields(d)
    /\ parsers' = Advanced
    /\ current_state' = [current_state EXCEPT !.transform_matrix = m]
    /\ UNCHANGED <<includes, states_stack, is_world_block, tables, scene,
                   result, debug_assertions>>
    /\ Observe(d, TRUE)

\* Element::Translate { v }
Translate ==
    \E v \in TranslateVecs :
        SetTransform([op |-> "Translate", v |-> v],
                     Mul(current_state.transform_matrix, FromTranslation(v)))

\* Scale that multiplies on the left.
Scale_PreMultiplies ==
    \E v \in ScaleVecs :
        SetTransform([op |-> "Scale", v |-> v],
                     Mul(FromScale(v), current_state.transform_matrix))

\* Element::Scale { v }
Scale ==
    \E v \in ScaleVecs :
        SetTransform([op |-> "Scale", v |-> v],
                     Mul(current_state.transform_matrix, FromScale(v)))

\* Element::Identity
Identity == SetTransform([op |-> "Identity"], IDENTITY)

\* Element::Rotate { angle, v }
Rotate ==
    \E angle \in RotateAngles :
        SetTransform([op |-> "Rotate", angle |-> angle, v |-> <<1, 1, 1>>],
                     Mul(current_state.transform_matrix,
                         FromAxisAngle(<<1, 1, 1>>, angle)))

\* Element::LookAt { eye, look_at, up }
LookAt ==
    \E l \in LookAts :
        SetTransform([op |-> "LookAt", eye |-> l.eye, look_at |-> l.look_at,
                      up |-> l.up],
                     Mul(current_state.transform_matrix,
                         LookAtLh(l.eye, l.look_at, l.up)))

\* Element::Transform { m }
Transform ==
    \E m \in ColsArrays :
        SetTransform([op |-> "Transform", m |-> m], FromColsArray(m))

\* Element::ConcatTransform { m }
ConcatTransform ==
    \E m \in ColsArrays :
        SetTransform([op |-> "ConcatTransform", m |-> m],
                     Mul(current_state.transform_matrix, FromColsArray(m)))

(***************************************************************************)
(* Shapes, object templates and instances.                                 *)
(***************************************************************************)
ShapeTypes == {"sphere", "bogus"}

ObjectNames == {"foo", "bar"}

\* Shape that counts every shape, inside an object block or not.
OnShape_CountsAlways(ty, params) ==
    LET d == [op |-> "Shape", name |-> ty, params |-> params]
        merged == Extend(params, current_state.shape_params)
        entity == [params |-> [ty |-> ty, params |-> merged],
                   reverse_orientation |-> current_state.reverse_orientation,
                   material_index |-> current_state.material_index,
                   area_light_index |-> current_state.area_light_index,
                   transform |-> current_state.transform_matrix]
    IN
    /\ Yields(d)
    /\ parsers' = Advanced
    /\ IF Constructs(ty)
       THEN /\ scene' = [scene EXCEPT !.shapes = Append(scene.shapes, entity)]
            /\ current_state' =
                [current_state EXCEPT !.shape_count = current_state.shape_count + 1]
            /\ result' = result
       ELSE /\ result' = "Err(Construction)"
            /\ UNCHANGED <<scene, current_state>>
    /\ UNCHANGED <<includes, states_stack, is_world_block, tables, debug_assertions>>
    /\ Observe(d, TRUE)

\* Element::Shape { name: ty, params }
OnShape(ty, params) ==
    LET d == [op |-> "Shape", name |-> ty, params |-> params]
        merged == Extend(params, current_state.shape_params)
        entity == [params |-> [ty |-> ty, params |-> merged],
                   reverse_orientation |-> current_state.reverse_orientation,
                   material_index |-> current_state.material_index,
                   area_light_index |-> current_state.area_light_index,
                   transform |-> current_state.transform_matrix]
    IN
    /\ Yields(d)
    /\ parsers' = Advanced
    /\ IF Constructs(ty)
       THEN /\ scene' = [scene EXCEPT !.shapes = Append(scene.shapes, entity)]
            /\ current_state' =
                IF IsSome(current_state.active_object)
                THEN [current_state EXCEPT !.shape_count = current_state.shape_count + 1]
                ELSE current_state
            /\ result' = result
       ELSE /\ result' = "Err(Construction)"
            /\ UNCHANGED <<scene, current_state>>
    /\ UNCHANGED <<includes, states_stack, is_world_block, tables, debug_assertions>>
    /\ Observe(d, TRUE)

Shape == \E ty \in ShapeTypes : OnShape(ty, EmptyMap)

\* ObjectBegin that opens an object inside the object being recorded.
OnObjectBegin_Nests(name) ==
    LET d == [op |-> "ObjectBegin", name |-> name]
        object == [name |-> name, shape_count |-> 0, shape_start |-> None,
                   object_to_instance |-> current_state.transform_matrix]
        index == Len(scene.objects)
    IN
    /\ Yields(d)
    /\ parsers' = Advanced
    /\ states_stack' = Append(states_stack, current_state)
    /\ scene' = [scene EXCEPT !.objects = Append(scene.objects, object)]
    /\ current_state' = [current_state EXCEPT !.active_object = Some(index)]
    /\ named_objects' = Insert(named_objects, name, index)
    /\ result' = result
    /\ UNCHANGED <<includes, is_world_block, named_coord_systems, named_textures,
                   named_materials, named_mediums, debug_assertions>>
    /\ Observe(d, TRUE)

\* Element::ObjectBegin { name }
OnObjectBegin(name) ==
    LET d == [op |-> "ObjectBegin", name |-> name]
        object == [name |-> name, shape_count |-> 0, shape_start |-> None,
                   object_to_instance |-> current_state.transform_matrix]
        index == Len(scene.objects)
    IN
    /\ Yields(d)
    /\ parsers' = Advanced
    /\ IF IsSome(current_state.active_object)
       THEN /\ result' = "Err(NestedObjects)"
            /\ UNCHANGED <<states_stack, scene, current_state, named_objects>>
       ELSE /\ states_stack' = Append(states_stack, current_state)
            /\ scene' = [scene EXCEPT !.objects = Append(scene.objects, object)]
            /\ current_state' = [current_state EXCEPT !.active_object = Some(index)]
            /\ named_objects' = Insert(named_objects, name, index)
            /\ result' = result
    /\ UNCHANGED <<includes, is_world_block, named_coord_systems, named_textures,
                   named_materials, named_mediums, debug_assertions>>
    /\ Observe(d, TRUE)

ObjectBegin == \E name \in ObjectNames : OnObjectBegin(name)

\* `scene.shapes.len() - object.shape_count` on usize: an underflow panics
\* where overflow checks are compiled in and wraps (64 bits) where not.
ShapeStart(len, count) ==
    IF count <= len THEN len - count ELSE len - count + 2^64

\* ObjectEnd that drops an object that recorded no shape.
CloseObject_DropsEmpty(objects, object_index, shape_count, len) ==
    IF shape_count = 0
    THEN [i \in 1..(Len(objects) - 1) |->
            IF i <= object_index THEN objects[i] ELSE objects[i + 1]]
    ELSE [objects EXCEPT ![object_index + 1] =
            [@ EXCEPT !.shape_count = shape_count,
                      !.shape_start = Some(ShapeStart(len, shape_count))]]

\* The two assignments to `object` at lines 450-454.
CloseObject(objects, object_index, shape_count, len) ==
    [objects EXCEPT ![object_index + 1] =
        [@ EXCEPT !.shape_count = shape_count,
                  !.shape_start = IF shape_count > 0
                                  THEN Some(ShapeStart(len, shape_count))
                                  ELSE @]]

\* Element::ObjectEnd
ObjectEnd ==
    LET d == [op |-> "ObjectEnd"]
        shape_count == current_state.shape_count
        len == Len(scene.shapes)
        taken == [current_state EXCEPT !.active_object = None]
    IN
    /\ Yields(d)
    /\ parsers' = Advanced
    /\ IF current_state.active_object = None
       THEN /\ result' = "Err(ElementNotAllowed)"
            /\ UNCHANGED <<scene, current_state, states_stack>>
       ELSE IF shape_count > len /\ debug_assertions
       THEN /\ result' = "panic(attempt to subtract with overflow)"
            /\ current_state' = taken
            /\ scene' = [scene EXCEPT !.objects[Unwrap(current_state.active_object) + 1].shape_count = shape_count]
            /\ UNCHANGED states_stack
       ELSE /\ scene' = [scene EXCEPT !.objects =
                    CloseObject(scene.objects, Unwrap(current_state.active_object),
                                shape_count, len)]
            /\ IF states_stack # <<>>
               THEN /\ current_state' = Peek(states_stack)
                    /\ states_stack' = Pop(states_stack)
                    /\ result' = result
               ELSE /\ current_state' = [taken EXCEPT !.shape_count = 0]
                    /\ result' = "Err(ElementNotAllowed)"
                    /\ UNCHANGED states_stack
    /\ UNCHANGED <<includes, is_world_block, tables, debug_assertions>>
    /\ Observe(d, TRUE)

\* An Instance placed where its object was defined.
NewInstance_AtDefinition(state, object_index) ==
    [reverse_orientation |-> state.reverse_orientation,
     area_light_index |-> state.area_light_index,
     object_index |-> object_index,
     instance_to_world |-> scene.objects[object_index + 1].object_to_instance]

\* The Instance pushed at lines 469-477.
NewInstance(state, object_index) ==
    [reverse_orientation |-> state.reverse_orientation,
     area_light_index |-> state.area_light_index,
     object_index |-> object_index,
     instance_to_world |-> state.transform_matrix]

\* ObjectInstance that skips a name it does not find.
OnObjectInstance_Skips(name) ==
    LET d == [op |-> "ObjectInstance", name |-> name]
        found == Get(named_objects, name)
    IN
    /\ Yields(d)
    /\ parsers' = Advanced
    /\ scene' = IF found = None THEN scene
                ELSE [scene EXCEPT !.instances =
                        Append(scene.instances, NewInstance(current_state, Unwrap(found)))]
    /\ UNCHANGED <<includes, current_state, states_stack, is_world_block, tables,
                   result, debug_assertions>>
    /\ Observe(d, TRUE)

\* Element::ObjectInstance { name }
OnObjectInstance(name) ==
    LET d == [op |-> "ObjectInstance", name |-> name]
        found == Get(named_objects, name)
    IN
    /\ Yields(d)
    /\ parsers' = Advanced
    /\ IF found = None
       THEN /\ result' = "Err(NotFound)"
            /\ UNCHANGED scene
       ELSE /\ scene' = [scene EXCEPT !.instances =
                    Append(scene.instances, NewInstance(current_state, Unwrap(found)))]
            /\ result' = result
    /\ UNCHANGED <<includes, current_state, states_stack, is_world_block, tables,
                   debug_assertions>>
    /\ Observe(d, TRUE)

ObjectInstance == \E name \in ObjectNames : OnObjectInstance(name)

(***************************************************************************)
(* Materials, area lights, media and the parameter overlays.               *)
(***************************************************************************)
MaterialTypes == {"diffuse"}

\* Element::AreaLightSource { ty, params }
OnAreaLightSource(ty, params) ==
    LET d == [op |-> "AreaLightSource", ty |-> ty, params |-> params]
        merged == Extend(params, current_state.light_params)
        index == Len(scene.area_lights)
    IN
    /\ Yields(d)
    /\ parsers' = Advanced
    /\ IF Constructs(ty)
       THEN /\ scene' = [scene EXCEPT !.area_lights =
                    Append(scene.area_lights, [ty |-> ty, params |-> merged])]
            /\ current_state' = [current_state EXCEPT !.area_light_index = Some(index)]
            /\ result' = result
       ELSE /\ result' = "Err(Construction)"
            /\ UNCHANGED <<scene, current_state>>
    /\ UNCHANGED <<includes, states_stack, is_world_block, tables, debug_assertions>>
    /\ Observe(d, TRUE)

AreaLightSource == OnAreaLightSource("diffuse", EmptyMap)

\* Material whose index is read after the push.
OnMaterial_IndexAfterPush(ty, params) ==
    LET d == [op |-> "Material", ty |-> ty, params |-> params]
        merged == Extend(params, current_state.material_params)
        index == Len(scene.materials) + 1
    IN
    /\ Yields(d)
    /\ parsers' = Advanced
    /\ IF Constructs(ty)
       THEN /\ scene' = [scene EXCEPT !.materials =
                    Append(scene.materials, [ty |-> ty, params |-> merged])]
            /\ current_state' = [current_state EXCEPT !.material_index = Some(index)]
            /\ result' = result
       ELSE /\ result' = "Err(Construction)"
            /\ UNCHANGED <<scene, current_state>>
    /\ UNCHANGED <<includes, states_stack, is_world_block, tables, debug_assertions>>
    /\ Observe(d, TRUE)

\* Element::Material { ty, params }
OnMaterial(ty, params) ==
    LET d == [op |-> "Material", ty |-> ty, params |-> params]
        merged == Extend(params, current_state.material_params)
        index == Len(scene.materials)
    IN
    /\ Yields(d)
    /\ parsers' = Advanced
    /\ IF Constructs(ty)
       THEN /\ scene' = [scene EXCEPT !.materials =
                    Append(scene.materials, [ty |-> ty, params |-> merged])]
            /\ current_state' = [current_state EXCEPT !.material_index = Some(index)]
            /\ result' = result
       ELSE /\ result' = "Err(Construction)"
            /\ UNCHANGED <<scene, current_state>>
    /\ UNCHANGED <<includes, states_stack, is_world_block, tables, debug_assertions>>
    /\ Observe(d, TRUE)

Material == \E ty \in MaterialTypes : OnMaterial(ty, EmptyMap)

MediumNames == {"", "fog"}

MaterialNames == {"diffuse", "conductor", "foo"}

\* MakeNamedMaterial under which the first definition of a name stays.
OnMakeNamedMaterial_KeepsFirst(name, params) ==
    LET d == [op |-> "MakeNamedMaterial", name |-> name, params |-> params]
        merged == Extend(params, current_state.material_params)
        index == Len(scene.materials)
    IN
    /\ Yields(d)
    /\ parsers' = Advanced
    /\ IF Constructs(name)
       THEN /\ scene' = [scene EXCEPT !.materials =
                    Append(scene.materials, [ty |-> name, params |-> merged])]
            /\ named_materials' =
                IF name \in DOMAIN named_materials THEN named_materials
                ELSE Insert(named_materials, name, index)
            /\ result' = result
       ELSE /\ result' = "Err(Construction)"
            /\ UNCHANGED <<scene, named_materials>>
    /\ UNCHANGED <<includes, current_state, states_stack, is_world_block,
                   named_coord_systems, named_textures, named_mediums,
                   named_objects, debug_assertions>>
    /\ Observe(d, TRUE)

\* Element::MakeNamedMaterial { name, params }: `name` is what Material::new
\* receives as the type.
OnMakeNamedMaterial(name, params) ==
    LET d == [op |-> "MakeNamedMaterial", name |-> name, params |-> params]
        merged == Extend(params, current_state.material_params)
        index == Len(scene.materials)
    IN
    /\ Yields(d)
    /\ parsers' = Advanced
    /\ IF Constructs(name)
       THEN /\ scene' = [scene EXCEPT !.materials =
                    Append(scene.materials, [ty |-> name, params |-> merged])]
            /\ named_materials' = Insert(named_materials, name, index)
            /\ result' = result
       ELSE /\ result' = "Err(Construction)"
            /\ UNCHANGED <<scene, named_materials>>
    /\ UNCHANGED <<includes, current_state, states_stack, is_world_block,
                   named_coord_systems, named_textures, named_mediums,
                   named_objects, debug_assertions>>
    /\ Observe(d, TRUE)

MakeNamedMaterial == \E name \in MaterialNames : OnMakeNamedMaterial(name, EmptyMap)

\* Element::NamedMaterial { name }
OnNamedMaterial(name) ==
    LET d == [op |-> "NamedMaterial", name |-> name] IN
    /\ Yields(d)
    /\ parsers' = Advanced
    /\ current_state' = [current_state EXCEPT !.material_index =
            Get(named_materials, name)]
    /\ UNCHANGED <<includes, states_stack, is_world_block, tables, scene, result,
                   debug_assertions>>
    /\ Observe(d, TRUE)

NamedMaterial == \E name \in MaterialNames : OnNamedMaterial(name)

TextureNames == {"wood", "sky"}

TextureClasses == {"imagemap", "bogus"}

\* Element::Texture { name, ty, class, params }
OnTexture(name, ty, class, params) ==
    LET d == [op |-> "Texture", name |-> name, ty |-> ty, class |-> class,
              params |-> params]
        merged == Extend(params, current_state.texture_params)
        index == Len(scene.textures)
    IN
    /\ Yields(d)
    /\ parsers' = Advanced
    /\ IF Constructs(class)
       THEN /\ scene' = [scene EXCEPT !.textures =
                    Append(scene.textures,
                           [name |-> name, ty |-> ty, class |-> class,
                            params |-> merged])]
            /\ named_textures' = Insert(named_textures, name, index)
            /\ result' = result
       ELSE /\ result' = "Err(Construction)"
            /\ UNCHANGED <<scene, named_textures>>
    /\ UNCHANGED <<includes, current_state, states_stack, is_world_block,
                   named_coord_systems, named_materials, named_mediums,
                   named_objects, debug_assertions>>
    /\ Observe(d, TRUE)

Texture ==
    \E name \in TextureNames, class \in TextureClasses :
        OnTexture(name, "float", class, EmptyMap)

LightTypes == {"point", "bogus"}

\* Element::LightSource { ty, params }: `params` goes to Light::new as it is.
OnLightSource(ty, params) ==
    LET d == [op |-> "LightSource", ty |-> ty, params |-> params] IN
    /\ Yields(d)
    /\ parsers' = Advanced
    /\ IF Constructs(ty)
       THEN /\ scene' = [scene EXCEPT !.lights =
                    Append(scene.lights, [ty |-> ty, params |-> params])]
            /\ result' = result
       ELSE /\ result' = "Err(Construction)"
            /\ UNCHANGED scene
    /\ UNCHANGED <<includes, current_state, states_stack, is_world_block, tables,
                   debug_assertions>>
    /\ Observe(d, TRUE)

LightSource == \E ty \in LightTypes : OnLightSource(ty, EmptyMap)

MediumParams == {[type |-> "homogeneous"], [type |-> "bogus"]}

\* Element::MakeNamedMedium { name, params }
OnMakeNamedMedium(name, params) ==
    LET d == [op |-> "MakeNamedMedium", name |-> name, params |-> params]
        merged == Extend(params, current_state.medium_params)
        index == Len(scene.mediums)
    IN
    /\ Yields(d)
    /\ parsers' = Advanced
    /\ IF ConstructsMedium(merged)
       THEN /\ scene' = [scene EXCEPT !.mediums =
                    Append(scene.mediums, [params |-> merged])]
            /\ named_mediums' = Insert(named_mediums, name, index)
            /\ result' = result
       ELSE /\ result' = "Err(Construction)"
            /\ UNCHANGED <<scene, named_mediums>>
    /\ UNCHANGED <<includes, current_state, states_stack, is_world_block,
                   named_coord_systems, named_textures, named_materials,
                   named_objects, debug_assertions>>
    /\ Observe(d, TRUE)

MakeNamedMedium ==
    \E name \in MediumNames \ {""}, params \in MediumParams :
        OnMakeNamedMedium(name, params)

\* Element::MediumInterface { interior, exterior }
OnMediumInterface(interior, exterior) ==
    LET d == [op |-> "MediumInterface", interior |-> interior, exterior |-> exterior] IN
    /\ Yields(d)
    /\ parsers' = Advanced
    /\ current_state' = [current_state EXCEPT !.current_inside_medium = Some(interior),
                                              !.current_outside_medium = Some(exterior)]
    /\ UNCHANGED <<includes, states_stack, is_world_block, tables, scene, result,
                   debug_assertions>>
    /\ Observe(d, TRUE)

MediumInterface == \E interior \in MediumNames : OnMediumInterface(interior, "")

AttributeTargets == {"shape", "light", "material", "medium", "texture", "film"}

OverlayParams == {[radius |-> 2]}

\* Element::Attribute { target, params }
OnAttribute(target, params) ==
    LET d == [op |-> "Attribute", target |-> target, params |-> params] IN
    /\ Yields(d)
    /\ parsers' = Advanced
    /\ CASE target = "shape" ->
              /\ current_state' = [current_state EXCEPT !.shape_params = Extend(@, params)]
              /\ result' = result
         [] target = "light" ->
              /\ current_state' = [current_state EXCEPT !.light_params = Extend(@, params)]
              /\ result' = result
         [] target = "material" ->
              /\ current_state' = [current_state EXCEPT !.material_params = Extend(@, params)]
              /\ result' = result
         [] target = "medium" ->
              /\ current_state' = [current_state EXCEPT !.medium_params = Extend(@, params)]
              /\ result' = result
         [] target = "texture" ->
              /\ current_state' = [current_state EXCEPT !.texture_params = Extend(@, params)]
              /\ result' = result
         [] OTHER ->
              /\ result' = "panic(not implemented)"
              /\ UNCHANGED current_state
    /\ UNCHANGED <<includes, states_stack, is_world_block, tables, scene,
                   debug_assertions>>
    /\ Observe(d, TRUE)

Attribute == \E target \in AttributeTargets, params \in OverlayParams : OnAttribute(target, params)

(***************************************************************************)
(* Named coordinate systems, the camera and the world block.               *)
(***************************************************************************)
CoordSysNames == {"camera", "a"}

\* Element::CoordinateSystem { name }
OnCoordinateSystem(name) ==
    LET d == [op |-> "CoordinateSystem", name |-> name] IN
    /\ Yields(d)
    /\ parsers' = Advanced
    /\ named_coord_systems' =
        Insert(named_coord_systems, name, current_state.transform_matrix)
    /\ UNCHANGED <<includes, current_state, states_stack, is_world_block,
                   named_textures, named_materials, named_mediums, named_objects,
                   scene, result, debug_assertions>>
    /\ Observe(d, TRUE)

CoordinateSystem == \E name \in CoordSysNames : OnCoordinateSystem(name)

\* CoordSysTransform that multiplies the recorded matrix into the transform.
OnCoordSysTransform_Concat(name) ==
    LET d == [op |-> "CoordSysTransform", name |-> name]
        found == Get(named_coord_systems, name)
    IN
    /\ Yields(d)
    /\ parsers' = Advanced
    /\ IF found # None
       THEN /\ current_state' = [current_state EXCEPT !.transform_matrix =
                                    Mul(current_state.transform_matrix, Unwrap(found))]
            /\ result' = result
       ELSE /\ result' = "panic(not implemented)"
            /\ UNCHANGED current_state
    /\ UNCHANGED <<includes, states_stack, is_world_block, tables, scene,
                   debug_assertions>>
    /\ Observe(d, TRUE)

\* Element::CoordSysTransform { name }
OnCoordSysTransform(name) ==
    LET d == [op |-> "CoordSysTransform", name |-> name]
        found == Get(named_coord_systems, name)
    IN
    /\ Yields(d)
    /\ parsers' = Advanced
    /\ IF found # None
       THEN /\ current_state' = [current_state EXCEPT !.transform_matrix = Unwrap(found)]
            /\ result' = result
       ELSE /\ result' = "panic(not implemented)"
            /\ UNCHANGED current_state
    /\ UNCHANGED <<includes, states_stack, is_world_block, tables, scene,
                   debug_assertions>>
    /\ Observe(d, TRUE)

CoordSysTransform == \E name \in CoordSysNames : OnCoordSysTransform(name)

CameraTypes == {"perspective", "bogus"}

\* Element::Camera { ty, params }
OnCamera(ty, params) ==
    LET d == [op |-> "Camera", ty |-> ty, params |-> params]
        camera_from_world == current_state.transform_matrix
        world_from_camera == Inverse(camera_from_world)
        entity == [params |-> [ty |-> ty, params |-> params],
                   transform |-> world_from_camera]
    IN
    /\ Yields(d)
    /\ parsers' = Advanced
    /\ named_coord_systems' = Insert(named_coord_systems, "camera", world_from_camera)
    /\ IF Constructs(ty)
       THEN /\ scene' = [scene EXCEPT !.camera = Some(entity)]
            /\ result' = result
       ELSE /\ result' = "Err(Construction)"
            /\ UNCHANGED scene
    /\ UNCHANGED <<includes, current_state, states_stack, is_world_block,
                   named_textures, named_materials, named_mediums, named_objects,
                   debug_assertions>>
    /\ Observe(d, TRUE)

Camera == \E ty \in CameraTypes : OnCamera(ty, EmptyMap)

\* Element::WorldBegin
WorldBegin ==
    LET d == [op |-> "WorldBegin"] IN
    /\ Yields(d)
    /\ parsers' = Advanced
    /\ is_world_block' = TRUE
    /\ current_state' = [current_state EXCEPT !.transform_matrix = IDENTITY]
    /\ UNCHANGED <<includes, states_stack, tables, scene, result, debug_assertions>>
    /\ Observe(d, TRUE)

(***************************************************************************)
(* Film, integrator, accelerator, pixel filter and sampler.                *)
(***************************************************************************)
FilmTypes == {"rgb", "gbuffer"}

SamplerTypes == {"halton", "bogus"}

\* The arms of Film, Integrator, Accelerator and PixelFilter: the
\* debug_assert!, then X::new(ty, params)?, then the assignment to `field`.
SetSingleton(d, field) ==
    /\ Yields(d)
    /\ parsers' = Advanced
    /\ IF debug_assertions /\ IsSome(scene[field])
       THEN /\ result' = "panic(assertion failed: is_none())"
            /\ UNCHANGED scene
       ELSE IF ~Constructs(d.ty)
       THEN /\ result' = "Err(Construction)"
            /\ UNCHANGED scene
       ELSE /\ scene' = [scene EXCEPT ![field] =
                    Some([ty |-> d.ty, params |-> d.params])]
            /\ result' = result
    /\ UNCHANGED <<includes, current_state, states_stack, is_world_block, tables,
                   debug_assertions>>
    /\ Observe(d, TRUE)

\* Element::Film { ty, params }
Film ==
    \E ty \in FilmTypes :
        SetSingleton([op |-> "Film", ty |-> ty, params |-> EmptyMap], "film")

\* Element::Integrator { ty, params }
Integrator ==
    SetSingleton([op |-> "Integrator", ty |-> "path", params |-> EmptyMap],
                 "integrator")

\* Element::Accelerator { ty, params }
Accelerator ==
    SetSingleton([op |-> "Accelerator", ty |-> "bvh", params |-> EmptyMap],
                 "accelerator")

\* Element::PixelFilter { ty, params }
PixelFilter ==
    SetSingleton([op |-> "PixelFilter", ty |-> "gaussian", params |-> EmptyMap],
                 "pixel_filter")

\* Element::Sampler { ty, params }: Sampler::new(ty, params)? comes first,
\* the debug_assert! second.
OnSampler(ty, params) ==
    LET d == [op |-> "Sampler", ty |-> ty, params |-> params] IN
    /\ Yields(d)
    /\ parsers' = Advanced
    /\ IF ~Constructs(ty)
       THEN /\ result' = "Err(Construction)"
            /\ UNCHANGED scene
       ELSE IF debug_assertions /\ IsSome(scene.sampler)
       THEN /\ result' = "panic(assertion failed: is_none())"
            /\ UNCHANGED scene
       ELSE /\ scene' = [scene EXCEPT !.sampler =
                    Some([ty |-> ty, params |-> params])]
            /\ result' = result
    /\ UNCHANGED <<includes, current_state, states_stack, is_world_block, tables,
                   debug_assertions>>
    /\ Observe(d, TRUE)

Sampler == \E ty \in SamplerTypes : OnSampler(ty, EmptyMap)

(***************************************************************************)
(* The shutter interval.                                                   *)
(***************************************************************************)
TimePairs == {<<1, 2>>, <<3, 4>>}

\* TransformTimes that is accepted inside the world block too.
OnTransformTimes_Unguarded(start, end) ==
    LET d == [op |-> "TransformTimes", start |-> start, end |-> end] IN
    /\ Yields(d)
    /\ parsers' = Advanced
    /\ scene' = [scene EXCEPT !.start_time = start, !.end_time = end]
    /\ result' = result
    /\ UNCHANGED <<includes, current_state, states_stack, is_world_block, tables,
                   debug_assertions>>
    /\ Observe(d, TRUE)

\* Element::TransformTimes { start, end }
OnTransformTimes(start, end) ==
    LET d == [op |-> "TransformTimes", start |-> start, end |-> end] IN
    /\ Yields(d)
    /\ parsers' = Advanced
    /\ IF is_world_block
       THEN /\ result' = "Err(WorldAlreadyStarted)"
            /\ UNCHANGED scene
       ELSE /\ scene' = [scene EXCEPT !.start_time = start, !.end_time = end]
            /\ result' = result
    /\ UNCHANGED <<includes, current_state, states_stack, is_world_block, tables,
                   debug_assertions>>
    /\ Observe(d, TRUE)

TransformTimes == \E t \in TimePairs : OnTransformTimes(t[1], t[2])

(***************************************************************************)
(* Include: paths are strings of characters, files are read from a fixed   *)
(* file system.                                                            *)
(***************************************************************************)
\* `working_directory`, the second argument of load
working_directory == Some(<<"/", "s">>)

\* env::current_dir()
CurrentDir == <<"/", "c">>

\* Path::is_absolute
IsAbsolute(path) == path # <<>> /\ path[1] = "/"

\* Path::join, for a relative `path`
Join(dir, path) == dir \o <<"/">> \o path

\* The path handed to fs::read_to_string (lines 283-293).
FullPath(path) ==
    IF IsAbsolute(path) THEN path
    ELSE IF IsSome(working_directory) THEN Join(Unwrap(working_directory), path)
    ELSE Join(CurrentDir, path)

\* Positions of character c in s
Positions(s, c) == {i \in 1..Len(s) : s[i] = c}

Max(S) == CHOOSE x \in S : \A y \in S : y <= x

\* Path::file_name: what follows the last separator
FileName(path) ==
    IF Positions(path, "/") = {} THEN path
    ELSE SubSeq(path, Max(Positions(path, "/")) + 1, Len(path))

\* Path::extension: what follows the last dot of the file name, if that dot is
\* not its first character
Extension(path) ==
    LET name == FileName(path)
        dots == Positions(name, ".") \ {1}
    IN IF dots = {} THEN None ELSE Some(SubSeq(name, Max(dots) + 1, Len(name)))

\* str::ends_with
EndsWith(s, suffix) ==
    /\ Len(suffix) <= Len(s)
    /\ SubSeq(s, Len(s) - Len(suffix) + 1, Len(s)) = suffix

\* The test at lines 299-303.
IsGzip(path) ==
    /\ IsSome(Extension(path))
    /\ EndsWith(Unwrap(Extension(path)), <<".", "g", "z">>)

P1 == <<"1", ".", "p">>

P2 == <<"2", ".", "p">>

P3 == <<"3", ".", "p">>

P4 == <<"4", ".", "p">>

PScope == <<"a", ".", "p">>

PMissing == <<"m", ".", "p">>

PWorld == <<"w", ".", "p">>

PTimes == <<"t", ".", "p">>

PGzip == <<"z", ".", "g", "z">>

PLoop == <<"l", ".", "p">>

PPing == <<"i", ".", "p">>

PPong == <<"o", ".", "p">>

\* The files on disk that fs::read_to_string can read (a missing file, or one
\* whose bytes are not UTF-8, is an Err): the four files of test_includes, a
\* file that opens an attribute scope and moves the transform without closing
\* the scope, a file for each of WorldBegin and TransformTimes, a file
\* named *.gz, a file that includes itself and two files that include each
\* other.
Files ==
    (FullPath(P1) :> <<[op |-> "Shape", name |-> "sphere", params |-> EmptyMap]>>)
    @@ (FullPath(P2) :> <<[op |-> "Include", path |-> P1]>>)
    @@ (FullPath(P3) :> <<[op |-> "Include", path |-> P2]>>)
    @@ (FullPath(P4) :> <<[op |-> "Include", path |-> P3]>>)
    @@ (FullPath(PScope) :> <<[op |-> "AttributeBegin"],
                              [op |-> "Translate", v |-> <<1, 0, 0>>]>>)
    @@ (FullPath(PWorld) :> <<[op |-> "WorldBegin"]>>)
    @@ (FullPath(PTimes) :> <<[op |-> "TransformTimes", start |-> 3, end |-> 4]>>)
    @@ (FullPath(PGzip) :> <<[op |-> "Shape", name |-> "sphere", params |-> EmptyMap]>>)
    @@ (FullPath(PLoop) :> <<[op |-> "Include", path |-> PLoop]>>)
    @@ (FullPath(PPing) :> <<[op |-> "Include", path |-> PPong]>>)
    @@ (FullPath(PPong) :> <<[op |-> "Include", path |-> PPing]>>)

IncludePaths == {P1, P2, P3, P4, PScope, PMissing}

\* Element::Include(path)
OnInclude(path) ==
    LET d == [op |-> "Include", path |-> path]
        full == FullPath(path)
    IN
    /\ Yields(d)
    /\ IF full \notin DOMAIN Files
       THEN /\ result' = "Err(Io)"
            /\ parsers' = Advanced
            /\ UNCHANGED includes
       ELSE IF IsGzip(full)
       THEN /\ result' = "panic(not yet implemented: Gzip compression)"
            /\ parsers' = Advanced
            /\ UNCHANGED includes
       ELSE /\ includes' = Append(includes, Files[full])
            /\ parsers' = Append(Advanced, NewParser(Files[full]))
            /\ result' = result
    /\ UNCHANGED <<current_state, states_stack, is_world_block, tables, scene,
                   debug_assertions>>
    /\ Observe(d, result' # "running")

Include == \E path \in IncludePaths : OnInclude(path)

ImportPaths == {P1, PGzip}

\* Element::Import(..)
OnImport(path) ==
    LET d == [op |-> "Import", path |-> path] IN
    /\ Yields(d)
    /\ parsers' = Advanced
    /\ result' = "panic(not yet implemented: Support imports)"
    /\ UNCHANGED <<includes, current_state, states_stack, is_world_block, tables,
                   scene, debug_assertions>>
    /\ Observe(d, TRUE)

Import == \E path \in ImportPaths : OnImport(path)

(***************************************************************************)
(* The loop itself: end of file, a parse error, and the loop's exit.       *)
(***************************************************************************)
\* End of file that ends the load instead of resuming the including file.
EndOfFile_EndsLoad ==
    /\ AtEndOfFile
    /\ parsers' = <<>>
    /\ last' = [op |-> "EndOfFile"]
    /\ UNCHANGED <<includes, current_state, states_stack, is_world_block, tables,
                   scene, result, debug_assertions, opens, recorded, gap,
                   before, root_text, consumed, world_seen>>

\* End of file that leaves the exhausted parser on the stack.
EndOfFile_Stays ==
    /\ AtEndOfFile
    /\ parsers' = parsers
    /\ last' = [op |-> "EndOfFile"]
    /\ UNCHANGED <<includes, current_state, states_stack, is_world_block, tables,
                   scene, result, debug_assertions, opens, recorded, gap,
                   before, root_text, consumed, world_seen>>

\* Err(Error::EndOfFile): the top parser is removed (lines 141-145).
EndOfFile ==
    /\ AtEndOfFile
    /\ parsers' = Pop(parsers)
    /\ last' = [op |-> "EndOfFile"]
    /\ UNCHANGED <<includes, current_state, states_stack, is_world_block, tables,
                   scene, result, debug_assertions, opens, recorded, gap,
                   before, root_text, consumed, world_seen>>

\* Any other Err of parse_next is returned (line 146).
ParseError ==
    LET d == [op |-> "SyntaxError"] IN
    /\ Yields(d)
    /\ parsers' = Advanced
    /\ result' = "Err(Parse)"
    /\ UNCHANGED <<includes, current_state, states_stack, is_world_block, tables,
                   scene, debug_assertions>>
    /\ Observe(d, TRUE)

\* The loop ends when no parser is left (lines 498-501).
Finish ==
    /\ result = "running"
    /\ parsers = <<>>
    /\ result' =
        IF debug_assertions /\ states_stack # <<>>
        THEN "panic(assertion failed: states_stack.is_empty())"
        ELSE IF debug_assertions /\ ~is_world_block
        THEN "panic(assertion failed: is_world_block)"
        ELSE "Ok"
    /\ UNCHANGED <<parsers, includes, current_state, states_stack, is_world_block,
                   tables, scene, debug_assertions, last, opens, recorded, gap,
                   before, root_text, consumed, world_seen>>

(***************************************************************************)
(* Specifications.                                                         *)
(***************************************************************************)
\* The state at the head of the loop (lines 116-135), for a root parser.
InitWith(root) ==
    /\ \A i \in 1..Len(root.text) : DOMAIN root.text[i] \subseteq ElementFields
    /\ parsers = <<root>>
    /\ includes = <<>>
    /\ current_state = DefaultState
    /\ states_stack = <<>>
    /\ is_world_block = FALSE
    /\ named_coord_systems = EmptyMap
    /\ named_textures = EmptyMap
    /\ named_materials = EmptyMap
    /\ named_mediums = EmptyMap
    /\ named_objects = EmptyMap
    /\ scene = DefaultScene
    /\ result = "running"
    /\ debug_assertions \in BOOLEAN
    /\ last = NoDirective
    /\ opens = <<>>
    /\ recorded = EmptyMap
    /\ gap = NoGap
    /\ before = DefaultState
    /\ consumed = 0
    /\ world_seen = FALSE

\* A root text of at most MaxDirectives directives, revealed as it is parsed.
Init ==
    /\ InitWith([text |-> <<>>, more |-> MaxDirectives])
    /\ root_text = <<>>

\* Scopes, object templates and instances.
Next ==
    \/ AttributeBegin
    \/ AttributeEnd
    \/ Shape
    \/ ObjectBegin
    \/ ObjectEnd
    \/ ObjectInstance
    \/ Translate
    \/ ReverseOrientation
    \/ AreaLightSource
    \/ WorldBegin
    \/ EndOfFile
    \/ ParseError
    \/ Finish

Spec == Init /\ [][Next]_vars

\* The graphics state and its scopes: every directive that writes a field
\* of State, in a root text of at most MaxAttrDirectives directives.
InitAttr ==
    /\ InitWith([text |-> <<>>, more |-> MaxAttrDirectives])
    /\ root_text = <<>>

NextAttr ==
    \/ AttributeBegin
    \/ AttributeEnd
    \/ Attribute
    \/ ReverseOrientation
    \/ Translate
    \/ MediumInterface
    \/ Material
    \/ AreaLightSource
    \/ ObjectBegin
    \/ ObjectEnd
    \/ Shape
    \/ EndOfFile
    \/ Finish

SpecAttr == InitAttr /\ [][NextAttr]_vars

\* Transforms, named coordinate systems and the camera.
NextCoord ==
    \/ Translate
    \/ Scale
    \/ Identity
    \/ CoordinateSystem
    \/ CoordSysTransform
    \/ Camera
    \/ AttributeBegin
    \/ AttributeEnd
    \/ WorldBegin
    \/ EndOfFile
    \/ ParseError
    \/ Finish

SpecCoord == Init /\ [][NextCoord]_vars

\* The directives of a root text chosen up front.
RootDirectives ==
    {[op |-> "WorldBegin"], [op |-> "AttributeBegin"], [op |-> "AttributeEnd"],
     [op |-> "Shape", name |-> "sphere", params |-> EmptyMap],
     [op |-> "Translate", v |-> <<1, 0, 0>>]}
    \cup {[op |-> "Include", path |-> path] : path \in {P1, P4, PScope, PMissing}}

RootTexts ==
    UNION {[1..n -> RootDirectives] : n \in 0..MaxRootLen}

\* Any root text of at most MaxRootLen of these directives, over the files
\* on disk.
InitInclude ==
    /\ root_text \in RootTexts
    /\ InitWith(NewParser(root_text))

NextInclude ==
    \/ Include
    \/ Shape
    \/ AttributeBegin
    \/ AttributeEnd
    \/ Translate
    \/ WorldBegin
    \/ EndOfFile
    \/ Finish

SpecInclude == InitInclude /\ [][NextInclude]_vars

\* The shutter interval and the world block, in the root text and in
\* included files.
TimesPaths == {PWorld, PTimes}

IncludeTimes == \E path \in TimesPaths : OnInclude(path)

NextTimes ==
    \/ TransformTimes
    \/ WorldBegin
    \/ IncludeTimes
    \/ AttributeBegin
    \/ AttributeEnd
    \/ EndOfFile
    \/ Finish

SpecTimes == Init /\ [][NextTimes]_vars

\* Files named *.gz, and imports.
GzipPaths == {P1, PGzip, PMissing}

IncludeGzip == \E path \in GzipPaths : OnInclude(path)

NextGzip ==
    \/ IncludeGzip
    \/ Import
    \/ Shape
    \/ WorldBegin
    \/ EndOfFile
    \/ Finish

SpecGzip == Init /\ [][NextGzip]_vars

\* The directives that define entities, under the parameter overlays.
NextEntities ==
    \/ Attribute
    \/ Texture
    \/ Material
    \/ MakeNamedMaterial
    \/ LightSource
    \/ AreaLightSource
    \/ Shape
    \/ MakeNamedMedium
    \/ EndOfFile
    \/ Finish

SpecEntities == InitAttr /\ [][NextEntities]_vars

\* Everything that is pushed into the scene or registered under a name, in a
\* root text of at most MaxSceneDirectives directives.
InitScene ==
    /\ InitWith([text |-> <<>>, more |-> MaxSceneDirectives])
    /\ root_text = <<>>

NextScene ==
    \/ Texture
    \/ Material
    \/ MakeNamedMaterial
    \/ NamedMaterial
    \/ LightSource
    \/ AreaLightSource
    \/ MakeNamedMedium
    \/ Shape
    \/ ObjectBegin
    \/ ObjectEnd
    \/ ObjectInstance
    \/ AttributeBegin
    \/ AttributeEnd
    \/ EndOfFile
    \/ Finish

SpecScene == InitScene /\ [][NextScene]_vars

\* Every directive that writes the current transformation matrix.
NextTransform ==
    \/ Translate
    \/ Scale
    \/ Rotate
    \/ ConcatTransform
    \/ LookAt
    \/ Transform
    \/ Identity
    \/ WorldBegin
    \/ ReverseOrientation
    \/ EndOfFile
    \/ Finish

SpecTransform == Init /\ [][NextTransform]_vars

\* The directives that set a component the scene holds once.
NextSingletons ==
    \/ Film
    \/ Integrator
    \/ Accelerator
    \/ PixelFilter
    \/ Sampler
    \/ WorldBegin
    \/ EndOfFile
    \/ Finish

SpecSingletons == Init /\ [][NextSingletons]_vars

\* Files that include files, some of them in a cycle.  The loop is
\* sequential and each iteration completes, so a step that can be taken is
\* taken.
LoopPaths == {P1, P2, P3, P4, PLoop, PPing, PPong, PMissing}

IncludeLoop ==
    \E path \in LoopPaths : Len(parsers) < MaxParsers /\ OnInclude(path)

LoopDirectives ==
    {[op |-> "Shape", name |-> "sphere", params |-> EmptyMap]}
    \cup {[op |-> "Include", path |-> path] :
            path \in {P1, P4, PLoop, PPing, PMissing}}

InitLoop ==
    /\ root_text \in UNION {[1..n -> LoopDirectives] : n \in 0..MaxRootLen}
    /\ InitWith(NewParser(root_text))

NextLoop ==
    \/ IncludeLoop
    \/ Shape
    \/ EndOfFile
    \/ Finish

SpecLoop == InitLoop /\ [][NextLoop]_vars /\ WF_vars(NextLoop)

(***************************************************************************)
(* Vocabulary of the claims.                                               *)
(***************************************************************************)
\* This step dispatched a directive of kind op.
Stepped(op) == consumed' = consumed + 1 /\ last'.op = op

\* This step fetches a directive `op`, whether load goes on or ends with it.
Fetched(op) == parsers' # parsers /\ last'.op = op

\* The innermost open scope is of this kind and the text since its opening
\* is well nested.
ClosesWellNested(kind) ==
    opens # <<>> /\ Peek(opens).kind = kind /\ ~Peek(opens).tainted

\* The 0-based indices of the objects that ObjectBegin pushed under `name`.
Registered(name) ==
    {i \in 0..(Len(scene.objects) - 1) : scene.objects[i + 1].name = name}

(***************************************************************************)
(* C1.  For every ObjectBegin ... ObjectEnd block that closes              *)
(* successfully, with well nested text in between (balanced                *)
(* AttributeBegin/AttributeEnd pairs included), the object's shape_count   *)
(* is the number of Shape directives processed inside the block and, when  *)
(* that number is not zero, shape_start is the index of the first of them. *)
(***************************************************************************)
C1_ShapeRange ==
    [][(Stepped("ObjectEnd") /\ result' = "running" /\ ClosesWellNested("obj"))
        => LET scope == Peek(opens)
               object == scene'.objects[Unwrap(scope.index) + 1]
           IN /\ object.shape_count = scope.nshapes
              /\ scope.nshapes > 0 => object.shape_start = Some(scope.first)]_vars

(***************************************************************************)
(* C2.  Attribute scoping round trip: when an AttributeEnd closes the      *)
(* AttributeBegin it matches (the text in between is well nested), the     *)
(* graphics state after it equals, in every field, the state just before   *)
(* that AttributeBegin.                                                    *)
(***************************************************************************)
C2_AttributeRoundTrip ==
    [][(Stepped("AttributeEnd") /\ result' = "running" /\ ClosesWellNested("attr"))
        => current_state' = Peek(opens).saved]_vars

\* A matching AttributeEnd that took back a transform, an orientation, a
\* material, an area light, a medium or an overlay set inside the scope.
C2_Witness ==
    /\ result = "running"
    /\ last.op = "AttributeEnd"
    /\ before # current_state
    /\ before.active_object = current_state.active_object
    /\ before.shape_count = current_state.shape_count
    /\ Len(opens) = Len(states_stack)
    /\ \A i \in 1..Len(opens) : ~opens[i].tainted

(***************************************************************************)
(* C3.  Include is textual substitution: the directives dispatched are, in *)
(* order, those of the root text with every Include replaced by the text   *)
(* of the file it names; pushing and popping a parser touches neither the  *)
(* graphics state, the state stack, the tables nor the scene; and load     *)
(* returns Ok only when the whole substituted text has been dispatched.    *)
(***************************************************************************)
RECURSIVE Substituted(_)
\* The text with every Include of a file on disk replaced by that file's text.
Substituted(text) ==
    IF text = <<>> THEN <<>>
    ELSE LET d == Head(text) IN
         (IF d.op = "Include" /\ FullPath(d.path) \in DOMAIN Files
          THEN Substituted(Files[FullPath(d.path)])
          ELSE <<d>>) \o Substituted(Tail(text))

C3_IncludeIsSubstitution ==
    [][LET flat == Substituted(root_text) IN
       /\ consumed' = consumed + 1
            => consumed' <= Len(flat) /\ last' = flat[consumed']
       /\ consumed' = consumed
            => UNCHANGED <<current_state, states_stack, tables, scene,
                           is_world_block>>
       /\ (result = "running" /\ result' = "Ok") => consumed = Len(flat)]_vars

\* test_includes: the 4-deep chain and the direct include give two shapes.
C3_Witness ==
    /\ root_text = <<[op |-> "WorldBegin"], [op |-> "Include", path |-> P4],
                     [op |-> "Include", path |-> P1]>>
    /\ result = "Ok"
    /\ Len(includes) = 5
    /\ Len(scene.shapes) = 2

(***************************************************************************)
(* C4.  Every successful ObjectInstance(name) appends exactly one Instance *)
(* holding the transform, area light and orientation current at the        *)
(* directive and the index most recently registered for name; two          *)
(* instances of one name separated by a transform change have the same     *)
(* object_index and different instance_to_world.                           *)
(***************************************************************************)
C4_InstanceCaptures ==
    [][(Stepped("ObjectInstance") /\ result' = "running")
        => LET n == Len(scene.instances) IN
           /\ Registered(last'.name) # {}
           /\ scene'.instances = Append(scene.instances,
                [reverse_orientation |-> current_state.reverse_orientation,
                 area_light_index |-> current_state.area_light_index,
                 object_index |-> Max(Registered(last'.name)),
                 instance_to_world |-> current_state.transform_matrix])
           /\ (gap.phase = "moved" /\ gap.name = last'.name)
                => /\ scene'.instances[n + 1].object_index
                        = scene'.instances[n].object_index
                   /\ scene'.instances[n + 1].instance_to_world
                        # scene'.instances[n].instance_to_world]_vars

\* Two instances of one object, the second placed after a transform change,
\* away from where the object was defined.
C4_Witness ==
    /\ result = "running"
    /\ last.op = "ObjectInstance"
    /\ Len(scene.instances) = 2
    /\ scene.instances[1].object_index = scene.instances[2].object_index
    /\ scene.instances[1].instance_to_world # scene.instances[2].instance_to_world
    /\ scene.instances[2].instance_to_world
         # scene.objects[scene.instances[2].object_index + 1].object_to_instance

(***************************************************************************)
(* C5.  ObjectInstance naming an object that no earlier ObjectBegin        *)
(* registered makes load fail with NotFound, and the directive changes     *)
(* neither the scene, nor the tables, nor the graphics state.              *)
(***************************************************************************)
C5_UnknownInstance ==
    [][(Stepped("ObjectInstance") /\ Registered(last'.name) = {})
        => /\ result' = "Err(NotFound)"
           /\ UNCHANGED <<scene, tables, current_state, states_stack,
                          is_world_block>>]_vars

\* The failure, in a scene that already holds an object and a shape.
C5_Witness ==
    /\ result = "Err(NotFound)"
    /\ last.op = "ObjectInstance"
    /\ Registered(last.name) = {}
    /\ scene.objects # <<>>
    /\ scene.shapes # <<>>

(***************************************************************************)
(* C6.  AttributeEnd processed when the state stack is empty makes load    *)
(* fail with TooManyEndAttributes, ObjectEnd processed when no object is   *)
(* being recorded (active_object is None) makes it fail with               *)
(* ElementNotAllowed, and a load that has failed returns no Scene.         *)
(***************************************************************************)
C6_ExtraTerminator ==
    [][/\ (Stepped("AttributeEnd") /\ states_stack = <<>>)
            => result' = "Err(TooManyEndAttributes)"
       /\ (Stepped("ObjectEnd") /\ current_state.active_object = None)
            => result' = "Err(ElementNotAllowed)"
       /\ result # "running" => result' = result]_vars

\* An ObjectEnd refused after an object block was opened and closed.
C6_Witness ==
    /\ result = "Err(ElementNotAllowed)"
    /\ last.op = "ObjectEnd"
    /\ before.active_object = None
    /\ scene.objects # <<>>
    /\ states_stack = <<>>

(***************************************************************************)
(* C7.  Load never returns a Scene while a scope is unterminated: the      *)
(* state stack is empty whenever load returns Ok.                          *)
(***************************************************************************)
C7_NoOkOnOpenScope == result = "Ok" => states_stack = <<>>

(***************************************************************************)
(* C8.  Named coordinate systems round trip: CoordSysTransform(n), after   *)
(* CoordinateSystem(n) recorded the transform T and nothing recorded n     *)
(* again (no Camera since, when n is "camera"), sets the current transform *)
(* to T and changes no other field of the graphics state.                  *)
(***************************************************************************)
C8_CoordSysRoundTrip ==
    [][(Stepped("CoordSysTransform") /\ last'.name \in DOMAIN recorded)
        => /\ result' = "running"
           /\ current_state' =
                [current_state EXCEPT !.transform_matrix = recorded[last'.name]]]_vars

\* A CoordSysTransform that brought back a transform changed since it was
\* recorded.
C8_Witness ==
    /\ result = "running"
    /\ last.op = "CoordSysTransform"
    /\ last.name \in DOMAIN recorded
    /\ before.transform_matrix # current_state.transform_matrix
    /\ current_state.transform_matrix = recorded[last.name]
    /\ current_state.transform_matrix # IDENTITY

(***************************************************************************)
(* C9.  CoordSysTransform naming a coordinate system that was never        *)
(* recorded makes load return the NotFound error, the transform unchanged. *)
(***************************************************************************)
C9_UnknownCoordSys ==
    [][(Stepped("CoordSysTransform") /\ last'.name \notin DOMAIN named_coord_systems)
        => /\ result' = "Err(NotFound)"
           /\ current_state'.transform_matrix = current_state.transform_matrix]_vars

(***************************************************************************)
(* C10.  At most one Camera directive is accepted per load: a Camera       *)
(* directive processed when the scene already holds a camera is refused    *)
(* and leaves that camera in place.                                        *)
(***************************************************************************)
C10_SingleCamera ==
    [][(Stepped("Camera") /\ IsSome(scene.camera))
        => result' # "running" /\ scene'.camera = scene.camera]_vars

(***************************************************************************)
(* C11.  TransformTimes dispatched after a WorldBegin, in the root file or *)
(* in an included one, makes load fail with WorldAlreadyStarted and leaves *)
(* start_time and end_time as they were; dispatched before any WorldBegin  *)
(* it sets start_time and end_time to its two values; and is_world_block   *)
(* never returns to false once it is true.                                 *)
(***************************************************************************)
C11_TransformTimes ==
    [][/\ (Stepped("TransformTimes") /\ world_seen)
            => /\ result' = "Err(WorldAlreadyStarted)"
               /\ scene'.start_time = scene.start_time
               /\ scene'.end_time = scene.end_time
       /\ (Stepped("TransformTimes") /\ ~world_seen)
            => /\ result' = "running"
               /\ scene'.start_time = last'.start
               /\ scene'.end_time = last'.end
       /\ is_world_block => is_world_block']_vars

\* An interval set before the world block survives a TransformTimes that an
\* included file brings after a WorldBegin of another included file.
C11_Witness ==
    /\ result = "Err(WorldAlreadyStarted)"
    /\ Len(includes) = 2
    /\ last = [op |-> "TransformTimes", start |-> 3, end |-> 4]
    /\ scene.start_time = 1
    /\ scene.end_time = 2

(***************************************************************************)
(* C12.  An Include of a file whose name ends in ".gz", and every Import,  *)
(* ends the load with an explicit failure for an unsupported feature: no   *)
(* parser is pushed for the file and no text of it is kept to be parsed.   *)
(***************************************************************************)
GzipSuffix(path) == EndsWith(FileName(path), <<".", "g", "z">>)

Unsupported ==
    {"panic(not yet implemented: Gzip compression)",
     "panic(not yet implemented: Support imports)"}

C12_GzipAndImportRejected ==
    [][/\ (/\ Fetched("Include")
           /\ GzipSuffix(last'.path)
           /\ FullPath(last'.path) \in DOMAIN Files)
            => /\ result' \in Unsupported
               /\ Len(parsers') <= Len(parsers)
               /\ includes' = includes
       /\ Fetched("Import")
            => /\ result' \in Unsupported
               /\ Len(parsers') <= Len(parsers)
               /\ includes' = includes]_vars

(***************************************************************************)
(* C13.  After every ObjectEnd that succeeds no object is being recorded:  *)
(* active_object is None and the shape counter is 0, whatever directives   *)
(* (AttributeBegin and AttributeEnd included) came between the ObjectBegin *)
(* and the ObjectEnd.                                                      *)
(***************************************************************************)
C13_IdleAfterObjectEnd ==
    [][(Stepped("ObjectEnd") /\ result' = "running")
        => /\ current_state'.active_object = None
           /\ current_state'.shape_count = 0]_vars

(***************************************************************************)
(* C14.  ObjectBegin dispatched while an object is being recorded          *)
(* (active_object is Some) makes load fail with NestedObjects: no state is *)
(* pushed, no Object is appended and no name is registered.                *)
(***************************************************************************)
C14_NestedObjects ==
    [][(Stepped("ObjectBegin") /\ IsSome(current_state.active_object))
        => /\ result' = "Err(NestedObjects)"
           /\ states_stack' = states_stack
           /\ scene' = scene
           /\ named_objects' = named_objects]_vars

\* An ObjectBegin inside the block of another object is refused, and the
\* scene holds the outer object alone.
C14_Witness ==
    /\ result = "Err(NestedObjects)"
    /\ last = [op |-> "ObjectBegin", name |-> "bar"]
    /\ opens # <<>> /\ Peek(opens).kind = "obj"
    /\ Len(scene.objects) = 1
    /\ DOMAIN named_objects = {"foo"}

(***************************************************************************)
(* C15.  Each directive that defines an entity (Texture, Material,         *)
(* MakeNamedMaterial, LightSource, AreaLightSource, Shape,                 *)
(* MakeNamedMedium) hands its constructor the directive's parameters       *)
(* extended with the pending overlay of its kind (texture, material,       *)
(* material, light, light, shape, medium), and leaves every overlay as it  *)
(* was.                                                                    *)
(***************************************************************************)
EntityOps ==
    {"Texture", "Material", "MakeNamedMaterial", "LightSource",
     "AreaLightSource", "Shape", "MakeNamedMedium"}

MaterialOps == {"Material", "MakeNamedMaterial"}

LightOps == {"LightSource", "AreaLightSource"}

\* The pending overlay of the kind of entity that `op` defines.
Overlay(op) ==
    CASE op = "Texture" -> current_state.texture_params
      [] op \in MaterialOps -> current_state.material_params
      [] op \in LightOps -> current_state.light_params
      [] op = "Shape" -> current_state.shape_params
      [] op = "MakeNamedMedium" -> current_state.medium_params

\* The parameters the entity that `op` has just appended was built from.
Handed(op) ==
    CASE op = "Texture" -> Peek(scene'.textures).params
      [] op \in MaterialOps -> Peek(scene'.materials).params
      [] op = "LightSource" -> Peek(scene'.lights).params
      [] op = "AreaLightSource" -> Peek(scene'.area_lights).params
      [] op = "Shape" -> Peek(scene'.shapes).params.params
      [] op = "MakeNamedMedium" -> Peek(scene'.mediums).params

Overlays ==
    <<current_state.shape_params, current_state.light_params,
      current_state.material_params, current_state.medium_params,
      current_state.texture_params>>

C15_OverlayMerged ==
    [][\A op \in EntityOps :
        (Stepped(op) /\ result' = "running")
            => /\ Handed(op) = Extend(last'.params, Overlay(op))
               /\ Overlays' = Overlays]_vars

(***************************************************************************)
(* C16.  The scene is append-only.  As claimed: for each of textures,      *)
(* materials, lights, area_lights, mediums, shapes, objects and instances, *)
(* no directive removes or changes an element already pushed (so a shape's *)
(* material_index and area_light_index never change).                      *)
(***************************************************************************)
\* `new` is `old` with nothing removed and nothing changed.
Extends(new, old) ==
    /\ Len(old) <= Len(new)
    /\ \A i \in 1..Len(old) : new[i] = old[i]

C16_AppendOnly ==
    [][/\ Extends(scene'.textures, scene.textures)
       /\ Extends(scene'.materials, scene.materials)
       /\ Extends(scene'.lights, scene.lights)
       /\ Extends(scene'.area_lights, scene.area_lights)
       /\ Extends(scene'.mediums, scene.mediums)
       /\ Extends(scene'.shapes, scene.shapes)
       /\ Extends(scene'.objects, scene.objects)
       /\ Extends(scene'.instances, scene.instances)]_vars

(***************************************************************************)
(* C16, amended.  textures, materials, lights, area_lights, mediums,       *)
(* shapes and instances are append-only; objects never loses an element,   *)
(* an object's name and object_to_instance never change, and an object's   *)
(* shape_count and shape_start are written by ObjectEnd alone, in the      *)
(* object that active_object names.                                        *)
(***************************************************************************)
C16_AppendOnlyButOpenObject ==
    [][/\ Extends(scene'.textures, scene.textures)
       /\ Extends(scene'.materials, scene.materials)
       /\ Extends(scene'.lights, scene.lights)
       /\ Extends(scene'.area_lights, scene.area_lights)
       /\ Extends(scene'.mediums, scene.mediums)
       /\ Extends(scene'.shapes, scene.shapes)
       /\ Extends(scene'.instances, scene.instances)
       /\ Len(scene.objects) <= Len(scene'.objects)
       /\ \A i \in 1..Len(scene.objects) :
            /\ scene'.objects[i].name = scene.objects[i].name
            /\ scene'.objects[i].object_to_instance
                    = scene.objects[i].object_to_instance
            /\ scene'.objects[i] # scene.objects[i]
                => /\ Stepped("ObjectEnd")
                   /\ current_state.active_object = Some(i - 1)]_vars

\* An ObjectEnd has written the range of the one shape of its object into
\* the object pushed by ObjectBegin, with a material pushed before it.
C16_Witness ==
    /\ result = "running"
    /\ last = [op |-> "ObjectEnd"]
    /\ Len(scene.materials) = 1
    /\ Len(scene.shapes) = 1
    /\ Len(scene.objects) = 1
    /\ scene.objects[1].shape_count = 1
    /\ scene.objects[1].shape_start = Some(0)

(***************************************************************************)
(* C17.  Name tables are last-write-wins: named_textures, named_materials, *)
(* named_mediums and named_objects map each name to the index of the       *)
(* entity pushed by the most recent directive that defined the name        *)
(* (Texture, MakeNamedMaterial, MakeNamedMedium, ObjectBegin); a           *)
(* NamedMaterial or ObjectInstance resolves the name to that index; and    *)
(* the entities pushed before a redefinition stay in the scene.            *)
(***************************************************************************)
\* 0-based index of the last element of `vec` that carries the name n.
LatestNamed(vec, n) == Max({i \in 1..Len(vec) : vec[i].name = n}) - 1

\* `table` maps exactly the names carried in `vec`, each to its last bearer.
MapsToLatest(table, vec) ==
    /\ DOMAIN table = {vec[i].name : i \in 1..Len(vec)}
    /\ \A n \in DOMAIN table : table[n] = LatestNamed(vec, n)

\* This step, if it is a successful `op`, maps the directive's name to the
\* index of the entity it appends to `vec` and keeps every other name; any
\* other step keeps the table.
Redefines(op, old, new, vec) ==
    IF Stepped(op) /\ result' = "running"
    THEN /\ DOMAIN new = DOMAIN old \cup {last'.name}
         /\ new[last'.name] = Len(vec)
         /\ \A n \in DOMAIN old \ {last'.name} : new[n] = old[n]
    ELSE new = old

C17_LastWriteWins ==
    [][/\ MapsToLatest(named_textures', scene'.textures)
       /\ MapsToLatest(named_objects', scene'.objects)
       /\ Redefines("MakeNamedMaterial", named_materials, named_materials',
                    scene.materials)
       /\ Redefines("MakeNamedMedium", named_mediums, named_mediums',
                    scene.mediums)
       /\ (Stepped("NamedMaterial") /\ last'.name \in DOMAIN named_materials)
            => current_state'.material_index
                    = Some(named_materials[last'.name])
       /\ (Stepped("ObjectInstance") /\ result' = "running")
            => Peek(scene'.instances).object_index = named_objects[last'.name]
       /\ Extends(scene'.textures, scene.textures)
       /\ Extends(scene'.materials, scene.materials)
       /\ Extends(scene'.mediums, scene.mediums)
       /\ Len(scene.objects) <= Len(scene'.objects)]_vars

\* A NamedMaterial after the name was defined twice selects the second
\* material, and the first is still in the scene.
C17_Witness ==
    /\ result = "running"
    /\ last = [op |-> "NamedMaterial", name |-> "diffuse"]
    /\ before.material_index = None
    /\ Len(scene.materials) = 2
    /\ named_materials = [n \in {"diffuse"} |-> 1]
    /\ current_state.material_index = Some(1)

(***************************************************************************)
(* C18.  Translate, Scale, Rotate, ConcatTransform and LookAt multiply the *)
(* current transformation matrix on the right by the directive's matrix    *)
(* (Translate then Scale gives previous x translation x scale, not the     *)
(* reverse); Transform replaces it by its matrix; Identity and WorldBegin  *)
(* set it to the identity; and none of them changes another field of the   *)
(* graphics state.                                                         *)
(***************************************************************************)
\* The graphics state becomes what it was, with transform matrix m.
OnlyTransformIs(m) ==
    current_state' = [current_state EXCEPT !.transform_matrix = m]

TransformOf(d) ==
    CASE d.op = "Translate" -> FromTranslation(d.v)
      [] d.op = "Scale" -> FromScale(d.v)
      [] d.op = "Rotate" -> FromAxisAngle(d.v, d.angle)
      [] d.op = "ConcatTransform" -> FromColsArray(d.m)
      [] d.op = "LookAt" -> LookAtLh(d.eye, d.look_at, d.up)

PostMultiplied == {"Translate", "Scale", "Rotate", "ConcatTransform", "LookAt"}

C18_TransformOrder ==
    [][/\ \A op \in PostMultiplied :
            Stepped(op)
                => OnlyTransformIs(Mul(current_state.transform_matrix,
                                       TransformOf(last')))
       /\ Stepped("Transform") => OnlyTransformIs(FromColsArray(last'.m))
       /\ Stepped("Identity") => OnlyTransformIs(IDENTITY)
       /\ Stepped("WorldBegin") => OnlyTransformIs(IDENTITY)]_vars

\* A Scale after a Translate, both other than the identity, on a state whose
\* orientation was reversed: the matrix is translation x scale, which is not
\* scale x translation.
C18_Witness ==
    /\ result = "running"
    /\ consumed = 3
    /\ last = [op |-> "Scale", v |-> <<2, 2, 2>>]
    /\ before.transform_matrix = FromTranslation(<<1, 0, 0>>)
    /\ current_state.reverse_orientation
    /\ current_state.transform_matrix
            = Mul(FromTranslation(<<1, 0, 0>>), FromScale(<<2, 2, 2>>))
    /\ current_state.transform_matrix
            # Mul(FromScale(<<2, 2, 2>>), FromTranslation(<<1, 0, 0>>))

(***************************************************************************)
(* C19.  Film, Integrator, Accelerator, PixelFilter and Sampler are each   *)
(* accepted at most once per load: a directive whose component the scene   *)
(* already holds ends the load and never replaces the stored component.    *)
(***************************************************************************)
SingletonField(op) ==
    CASE op = "Film" -> "film"
      [] op = "Integrator" -> "integrator"
      [] op = "Accelerator" -> "accelerator"
      [] op = "PixelFilter" -> "pixel_filter"
      [] op = "Sampler" -> "sampler"

SingletonOps == {"Film", "Integrator", "Accelerator", "PixelFilter", "Sampler"}

C19_SingletonOnce ==
    [][\A op \in SingletonOps :
        (Stepped(op) /\ IsSome(scene[SingletonField(op)]))
            => /\ result' # "running"
               /\ scene'[SingletonField(op)] = scene[SingletonField(op)]]_vars

RECURSIVE Acyclic(_, _)
\* No Include of `text`, followed through the files, leads to a file of
\* `open` or to a file that includes itself.
Acyclic(text, open) ==
    \A i \in 1..Len(text) :
        (text[i].op = "Include" /\ FullPath(text[i].path) \in DOMAIN Files)
            => /\ FullPath(text[i].path) \notin open
               /\ Acyclic(Files[FullPath(text[i].path)],
                          open \cup {FullPath(text[i].path)})

ValidIn(index, vec) == IsSome(index) => Unwrap(index) \in 0..(Len(vec) - 1)

ValidState(state) ==
    /\ ValidIn(state.material_index, scene.materials)
    /\ ValidIn(state.area_light_index, scene.area_lights)
    /\ ValidIn(state.active_object, scene.objects)

ValidTable(table, vec) ==
    \A n \in DOMAIN table : table[n] \in 0..(Len(vec) - 1)

C21_IndicesValid ==
    /\ ValidState(current_state)
    /\ \A i \in 1..Len(states_stack) : ValidState(states_stack[i])
    /\ \A i \in 1..Len(scene.shapes) :
        /\ ValidIn(scene.shapes[i].material_index, scene.materials)
        /\ ValidIn(scene.shapes[i].area_light_index, scene.area_lights)
    /\ \A i \in 1..Len(scene.instances) :
        /\ scene.instances[i].object_index \in 0..(Len(scene.objects) - 1)
        /\ ValidIn(scene.instances[i].area_light_index, scene.area_lights)
    /\ ValidTable(named_textures, scene.textures)
    /\ ValidTable(named_materials, scene.materials)
    /\ ValidTable(named_mediums, scene.mediums)
    /\ ValidTable(named_objects, scene.objects)

\* A shape that carries the index of a material and of an area light, under
\* a saved state that carries them too, beside a material defined by name.
C21_Witness ==
    /\ result = "running"
    /\ Len(scene.materials) = 2
    /\ named_materials # EmptyMap
    /\ states_stack # <<>>
    /\ IsSome(Peek(states_stack).material_index)
    /\ scene.shapes # <<>>
    /\ IsSome(scene.shapes[1].material_index)

(***************************************************************************)
(* C22.  Object shape ranges stay inside the shape list for every          *)
(* directive sequence, balanced or not: the shape counter of the current   *)
(* state and of every state on the stack never exceeds the number of       *)
(* shapes in the scene (so the subtraction at ObjectEnd never underflows), *)
(* and every object has shape_start = None exactly when shape_count = 0,   *)
(* and otherwise shape_start + shape_count within the number of shapes.    *)
(***************************************************************************)
CountersInside ==
    /\ current_state.shape_count <= Len(scene.shapes)
    /\ \A i \in 1..Len(states_stack) :
        states_stack[i].shape_count <= Len(scene.shapes)

RangeInside(object) ==
    /\ object.shape_start = None <=> object.shape_count = 0
    /\ object.shape_count > 0
        => Unwrap(object.shape_start) + object.shape_count <= Len(scene.shapes)

C22_ShapeRangesInside ==
    /\ CountersInside
    /\ \A i \in 1..Len(scene.objects) : RangeInside(scene.objects[i])

(***************************************************************************)
(* C23.  In every reachable state the current graphics state and every     *)
(* state on the stack have shape_count = 0 when active_object is None: the *)
(* shape counter is nonzero only while an object is being recorded,        *)
(* although ObjectBegin never sets it to zero.                             *)
(***************************************************************************)
CountsOnlyInObject(state) ==
    state.active_object = None => state.shape_count = 0

C23_CounterZeroWhenIdle ==
    /\ CountsOnlyInObject(current_state)
    /\ \A i \in 1..Len(states_stack) : CountsOnlyInObject(states_stack[i])

\* A second ObjectBegin, after a block that recorded a shape and a shape
\* outside any block, starts from a counter of 0.
C23_Witness ==
    /\ result = "running"
    /\ last.op = "ObjectBegin"
    /\ Len(scene.objects) = 2
    /\ scene.objects[1].shape_count = 1
    /\ Len(scene.shapes) = 2
    /\ current_state.active_object = Some(1)
    /\ current_state.shape_count = 0
    /\ states_stack # <<>>
    /\ Peek(states_stack).active_object = None
    /\ Peek(states_stack).shape_count = 0

====
